---- MODULE Spec2Model ----
(***************************************************************************)
(* The websocket session supervisor of AppFlowyCloudServer                 *)
(* (flowy-server/src/af_cloud/server.rs): the connect-state loop and the   *)
(* token-state loop of spawn_ws_conn, the reconnect attempts spawned by    *)
(* attempt_reconnect, the sync flag, and the token translation loop of     *)
(* subscribe_token_state with its watch channel.                           *)
(***************************************************************************)
EXTENDS Integers, Sequences, FiniteSets, TLC

\* ------------------------------------------------------------------ bounds
\* Total number of events the transport and the auth client emit in a run.
MaxEvents == 2
\* Number of raw token events delivered to the translation loop in a run.
MaxTokenEvents == 3

\* --------------------------------------------------------------- constants
\* attempt_reconnect(&ws_client, 2, ..) of the connect-state loop.
SupMinDelay == 2
\* attempt_reconnect(&ws_client, 5, ..) of the token-state loop.
TokMinDelay == 5
\* The upper end of gen_range(minimum_delay_in_secs..10).
RangeEnd == 10
\* The width the doc comment of attempt_reconnect states ("that minimum plus 10").
DocWidth == 10

VARIABLES
  enable_sync,         \* AppFlowyCloudServer.enable_sync (AtomicBool)
  session_alive,       \* the AppFlowyCloudServer still owns client and ws_client
  cancellation_token,  \* the token installed in the ArcSwap cell (token id)
  cancelled,           \* the ids of the CancellationTokens that were cancelled
  pc,                  \* position of each loop: "sup" (connect state), "tok" (token state)
  cur,                 \* the event each loop is handling (0: none)
  old,                 \* the token each loop got from load_full (-1: none)
  attempts,            \* the tasks spawned by attempt_reconnect, in spawn order
  events,              \* every event emitted so far, with what its handler did
  state_recv,          \* ids queued in the connect-state receiver of the sup loop
  token_state_rx,      \* ids queued in the token-state receiver of the tok loop
  raw_rx,              \* raw token states queued for the translation loop
  raw_sent,            \* number of raw token states emitted to the translation loop
  subscribed,          \* subscribe_token_state was called
  watch,               \* the watch channel: [val, ver, rx_alive]
  stream,              \* the WatchStream: [polled, seen, first, out]
  got,                 \* what get_token() returned in the last turn of the translation
                       \* loop ("none": the turn did not call it)
  network_reachable,   \* AppFlowyCloudServer.network_reachable (AtomicBool)
  handles,             \* the AFServerImpl values get_server_impl handed out
  lagged               \* the broadcast receiver of each loop has lagged

vars == <<enable_sync, session_alive, cancellation_token, cancelled, pc, cur, old,
          attempts, events, state_recv, token_state_rx,
          raw_rx, raw_sent, subscribed, watch, stream, got,
          network_reachable, handles, lagged>>

sessVars == <<enable_sync, session_alive, cancellation_token, cancelled, pc, cur, old,
              attempts, events, state_recv, token_state_rx>>
trVars == <<raw_rx, raw_sent, subscribed, watch, stream, got>>
otherVars == <<network_reachable, handles, lagged>>

Loops == {"sup", "tok"}

\* ConnectState of the transport, by the arm of the match that takes it:
\* "PingTimeoutOrLost" is the arm ConnectState::PingTimeout | ConnectState::Lost,
\* "Other" the arm `_` (Connecting, Connected, Disconnected).
ReconnectStates == {"PingTimeoutOrLost"}
ConnectStates == ReconnectStates \cup {"Unauthorized", "Other"}
\* TokenState of the auth client.
TokenStates == {"Refresh", "Invalid"}

AttemptIds == 1..Len(attempts)
EventIds == 1..Len(events)

\* ------------------------------------------------------------ pure helpers
\* rand::thread_rng().gen_range(minimum_delay_in_secs..10): the half-open range.
DelayRange(minimum_delay_in_secs) == minimum_delay_in_secs..(RangeEnd - 1)

\* The minimum delay each loop passes to attempt_reconnect.
MinDelay(l) == IF l = "sup" THEN SupMinDelay ELSE TokMinDelay

\* The gate with the enable_sync check left out.
ShouldReconnectNoGate(api_alive, sync) == api_alive
\* weak_api_client.upgrade().is_some() && enable_sync.load(SeqCst)
ShouldReconnect(api_alive, sync) == api_alive /\ sync

\* An attempt task holds ws_client_clone until it finishes.
Active(a) == attempts[a].st \in {"sleeping", "connecting"}

\* Arc<Client> is owned by the server object and by every AFServerImpl that was
\* built while sync was enabled.
ApiAlive == session_alive \/ \E h \in 1..Len(handles) : handles[h].client
\* Arc<WSClient> is owned by the server object, by the connect-state loop for as
\* long as it runs, and by every unfinished attempt task.
WsAlive ==
  \/ session_alive
  \/ pc["sup"] \notin {"start", "done"}
  \/ \E a \in AttemptIds : Active(a)

\* The sleep of attempt a has elapsed (whether or not the task was polled since).
Elapsed(a) ==
  \/ attempts[a].st \in {"connecting", "connected", "failed"}
  \/ attempts[a].st = "sleeping" /\ attempts[a].elapsed

\* UserTokenState: Init, Refresh { token }, Invalid.
InitState == [tag |-> "Init", token |-> ""]
RefreshState(token) == [tag |-> "Refresh", token |-> token]
InvalidState == [tag |-> "Invalid", token |-> ""]
\* Nothing is sent on the watch channel.
NoSend == [tag |-> "none", token |-> ""]

\* The tokens client.get_token() can return, and its Err.
Tokens == {"t1", "t2"}
GetTokenResults == Tokens \cup {"err"}

\* An emitted event and what its handler did with it: up is the result of the
\* handler's Weak::upgrade ("some"/"gone"), gate the value enable_sync.load()
\* returned ("on"/"off"), disc and refr the number of disconnect() and
\* refresh_token() calls, handled whether the handler has returned to recv.
NewEvent(src, kind) ==
  [src |-> src, kind |-> kind, up |-> "none", gate |-> "none", disc |-> 0, refr |-> 0,
   handled |-> FALSE]

\* Weak::upgrade() and AtomicBool::load() as the handlers record them.
Upgrade(alive) == IF alive THEN "some" ELSE "gone"
Loaded(flag) == IF flag THEN "on" ELSE "off"

\* ---------------------------------------------------------------- Init
Init ==
  /\ enable_sync \in BOOLEAN
  /\ session_alive = TRUE
  /\ cancellation_token = 0
  /\ cancelled = {}
  /\ pc = [l \in Loops |-> IF l = "sup" THEN "start" ELSE "recv"]
  /\ cur = [l \in Loops |-> 0]
  /\ old = [l \in Loops |-> -1]
  /\ attempts = <<>>
  /\ events = <<>>
  /\ state_recv = <<>>
  /\ token_state_rx = <<>>
  /\ raw_rx = <<>>
  /\ raw_sent = 0
  /\ subscribed = FALSE
  /\ watch = [val |-> InitState, ver |-> 0, rx_alive |-> TRUE]
  /\ stream = [polled |-> FALSE, seen |-> 0, first |-> 0, out |-> <<>>]
  /\ got = "none"
  /\ network_reachable = TRUE
  /\ handles = <<>>
  /\ lagged = [l \in Loops |-> FALSE]

\* ----------------------------------------------------------- environment
\* The transport emits a connect state; the sup loop's receiver queues it once the
\* loop has subscribed (subscribe_connect_state() runs when the task starts).
EmitConnectState(kind) ==
  /\ Len(events) < MaxEvents
  /\ WsAlive
  /\ events' = Append(events, NewEvent("conn", kind))
  /\ state_recv' = IF pc["sup"] \in {"start", "done"}
                   THEN state_recv
                   ELSE Append(state_recv, Len(events) + 1)
  /\ UNCHANGED <<enable_sync, session_alive, cancellation_token, cancelled, pc, cur,
                 old, attempts, token_state_rx>>
  /\ UNCHANGED <<trVars, otherVars>>

\* The auth client emits a raw token state; the tok loop's receiver queues it.
EmitTokenState(kind) ==
  /\ Len(events) < MaxEvents
  /\ ApiAlive
  /\ events' = Append(events, NewEvent("tok", kind))
  /\ token_state_rx' = Append(token_state_rx, Len(events) + 1)
  /\ UNCHANGED <<enable_sync, session_alive, cancellation_token, cancelled, pc, cur,
                 old, attempts, state_recv>>
  /\ UNCHANGED <<trVars, otherVars>>

\* A set_enable_sync that also cancels the installed token when sync is disabled.
set_enable_sync_cancelling(enable) ==
  /\ session_alive
  /\ enable_sync' = enable
  /\ cancelled' = IF enable THEN cancelled ELSE cancelled \cup {cancellation_token}
  /\ UNCHANGED <<session_alive, cancellation_token, pc, cur, old,
                 attempts, events, state_recv, token_state_rx>>
  /\ UNCHANGED <<trVars, otherVars>>
\* set_enable_sync(uid, enable): enable_sync.store(enable)
set_enable_sync(enable) ==
  /\ session_alive
  /\ enable_sync' = enable
  /\ UNCHANGED <<session_alive, cancellation_token, cancelled, pc, cur, old,
                 attempts, events, state_recv, token_state_rx>>
  /\ UNCHANGED <<trVars, otherVars>>

\* set_network_reachable(reachable): network_reachable.store(reachable)
set_network_reachable(reachable) ==
  /\ session_alive
  /\ network_reachable' = reachable
  /\ UNCHANGED <<handles, lagged>>
  /\ UNCHANGED <<sessVars, trVars>>

\* The AppFlowyCloudServer is dropped: its Arc<Client> and Arc<WSClient> go.
DropServer ==
  /\ session_alive
  /\ session_alive' = FALSE
  /\ UNCHANGED <<enable_sync, cancellation_token, cancelled, pc, cur, old,
                 attempts, events, state_recv, token_state_rx>>
  /\ UNCHANGED <<trVars, otherVars>>

\* ------------------------------------------------- connect-state loop (sup)
\* The spawned task starts: weak_ws_client.upgrade(), then subscribe_connect_state().
SupStart ==
  /\ pc["sup"] = "start"
  /\ pc' = [pc EXCEPT !["sup"] = IF session_alive THEN "recv" ELSE "done"]
  /\ UNCHANGED <<enable_sync, session_alive, cancellation_token, cancelled, cur, old,
                 attempts, events, state_recv, token_state_rx>>
  /\ UNCHANGED <<trVars, otherVars>>

\* An Unauthorized arm that starts the refresh and goes on to attempt_reconnect.
HandleUnauthorizedAndReconnect(e) ==
  IF ApiAlive
  THEN /\ pc' = [pc EXCEPT !["sup"] = "load"]
       /\ cur' = [cur EXCEPT !["sup"] = e]
       /\ events' = [events EXCEPT ![e].up = "some", ![e].refr = @ + 1]
  ELSE /\ events' = [events EXCEPT ![e].up = "gone", ![e].handled = TRUE]
       /\ UNCHANGED <<pc, cur>>
\* ConnectState::Unauthorized arm: if weak_api_client upgrades, call
\* refresh_token(..) and await it; nothing else.
HandleUnauthorized(e) ==
  IF ApiAlive
  THEN /\ pc' = [pc EXCEPT !["sup"] = "refresh"]
       /\ cur' = [cur EXCEPT !["sup"] = e]
       /\ events' = [events EXCEPT ![e].up = "some", ![e].refr = @ + 1]
  ELSE /\ events' = [events EXCEPT ![e].up = "gone", ![e].handled = TRUE]
       /\ UNCHANGED <<pc, cur>>

\* state_recv.recv() yields a state and the match arm runs up to its first call.
SupRecv ==
  /\ pc["sup"] = "recv"
  /\ ~lagged["sup"]
  /\ state_recv # <<>>
  /\ LET e == Head(state_recv)
         kind == events[e].kind
     IN /\ state_recv' = Tail(state_recv)
        /\ IF kind \in ReconnectStates
           THEN LET seen == [events EXCEPT
                               ![e].up = Upgrade(ApiAlive),
                               ![e].gate = IF ApiAlive THEN Loaded(enable_sync) ELSE "none"]
                IN IF ShouldReconnect(ApiAlive, enable_sync)
                   THEN /\ pc' = [pc EXCEPT !["sup"] = "load"]
                        /\ cur' = [cur EXCEPT !["sup"] = e]
                        /\ events' = seen
                   ELSE /\ events' = [seen EXCEPT ![e].handled = TRUE]
                        /\ UNCHANGED <<pc, cur>>
           ELSE IF kind = "Unauthorized"
                THEN HandleUnauthorized(e)
                ELSE /\ events' = [events EXCEPT ![e].handled = TRUE]
                     /\ UNCHANGED <<pc, cur>>
  /\ UNCHANGED <<enable_sync, session_alive, cancellation_token, cancelled, old,
                 attempts, token_state_rx>>
  /\ UNCHANGED <<trVars, otherVars>>

\* api_client.refresh_token(..).await returns (Ok or Err, the Err only logged).
SupRefreshDone ==
  /\ pc["sup"] = "refresh"
  /\ pc' = [pc EXCEPT !["sup"] = "recv"]
  /\ events' = [events EXCEPT ![cur["sup"]].handled = TRUE]
  /\ cur' = [cur EXCEPT !["sup"] = 0]
  /\ UNCHANGED <<enable_sync, session_alive, cancellation_token, cancelled, old,
                 attempts, state_recv, token_state_rx>>
  /\ UNCHANGED <<trVars, otherVars>>

\* --------------------------------------------------- token-state loop (tok)
\* An Invalid arm that disconnects and then goes on to attempt_reconnect.
HandleInvalidAndReconnect(e) ==
  /\ events' = [events EXCEPT ![e].up = "some", ![e].disc = @ + 1]
  /\ pc' = [pc EXCEPT !["tok"] = "load"]
  /\ cur' = [cur EXCEPT !["tok"] = e]
\* TokenState::Invalid arm: ws_client.disconnect(), nothing else.
HandleInvalid(e) ==
  /\ events' = [events EXCEPT ![e].up = "some", ![e].disc = @ + 1, ![e].handled = TRUE]
  /\ UNCHANGED <<pc, cur>>

\* token_state_rx.recv() yields a state and the match arm runs up to its first call.
TokRecv ==
  /\ pc["tok"] = "recv"
  /\ ~lagged["tok"]
  /\ token_state_rx # <<>>
  /\ LET e == Head(token_state_rx)
         kind == events[e].kind
     IN /\ token_state_rx' = Tail(token_state_rx)
        /\ IF ~WsAlive
           THEN /\ events' = [events EXCEPT ![e].up = "gone", ![e].handled = TRUE]
                /\ UNCHANGED <<pc, cur>>
           ELSE IF kind = "Refresh"
                THEN /\ pc' = [pc EXCEPT !["tok"] = "load"]
                     /\ cur' = [cur EXCEPT !["tok"] = e]
                     /\ events' = [events EXCEPT ![e].up = "some"]
                ELSE HandleInvalid(e)
  /\ UNCHANGED <<enable_sync, session_alive, cancellation_token, cancelled, old,
                 attempts, state_recv>>
  /\ UNCHANGED <<trVars, otherVars>>

\* ------------------------------------------------------- attempt_reconnect
\* cancellation_token.load_full()
Load(l) ==
  /\ pc[l] = "load"
  /\ old' = [old EXCEPT ![l] = cancellation_token]
  /\ pc' = [pc EXCEPT ![l] = "cancel"]
  /\ UNCHANGED <<enable_sync, session_alive, cancellation_token, cancelled, cur,
                 attempts, events, state_recv, token_state_rx>>
  /\ UNCHANGED <<trVars, otherVars>>

\* .cancel() on the token that was loaded
Cancel(l) ==
  /\ pc[l] = "cancel"
  /\ cancelled' = cancelled \cup {old[l]}
  /\ pc' = [pc EXCEPT ![l] = "store"]
  /\ UNCHANGED <<enable_sync, session_alive, cancellation_token, cur, old,
                 attempts, events, state_recv, token_state_rx>>
  /\ UNCHANGED <<trVars, otherVars>>

\* CancellationToken::new(), cancellation_token.store(..), gen_range, tokio::spawn.
\* The new token and the spawned attempt share the id Len(attempts) + 1. An attempt
\* is [by: the calling loop, cause: the event handled, min: minimum_delay_in_secs,
\* delay: the duration of its Sleep future, elapsed: that sleep has completed,
\* late: it completed after the token was cancelled (delay, elapsed and late are
\* reset when select! drops the futures),
\* st: sleeping | cancelled | connecting | connected | failed, connects: the number
\* of connect() calls it made].
Store(l) ==
  /\ pc[l] = "store"
  /\ \E delay_seconds \in DelayRange(MinDelay(l)) :
       attempts' = Append(attempts,
         [by |-> l, cause |-> cur[l], min |-> MinDelay(l), delay |-> delay_seconds,
          elapsed |-> FALSE, late |-> FALSE, st |-> "sleeping", connects |-> 0])
  /\ cancellation_token' = Len(attempts) + 1
  /\ events' = [events EXCEPT ![cur[l]].handled = TRUE]
  /\ pc' = [pc EXCEPT ![l] = "recv"]
  /\ cur' = [cur EXCEPT ![l] = 0]
  /\ old' = [old EXCEPT ![l] = -1]
  /\ UNCHANGED <<enable_sync, session_alive, cancelled, state_recv, token_state_rx>>
  /\ UNCHANGED <<trVars, otherVars>>

\* ------------------------------------------------------- the spawned task
\* tokio::time::sleep(Duration::from_secs(delay_seconds)) of attempt a completes;
\* the task is polled in a later step, so a cancellation can still arrive between.
\* late records that the token was cancelled before the sleep completed.
SleepElapses(a) ==
  /\ attempts[a].st = "sleeping"
  /\ ~attempts[a].elapsed
  /\ attempts' = [attempts EXCEPT ![a].elapsed = TRUE, ![a].late = a \in cancelled]
  /\ UNCHANGED <<enable_sync, session_alive, cancellation_token, cancelled, pc, cur,
                 old, events, state_recv, token_state_rx>>
  /\ UNCHANGED <<trVars, otherVars>>

\* The branches of select! that are ready when the task of attempt a is polled.
ReadyBranches(a) ==
  (IF a \in cancelled THEN {"cancelled"} ELSE {})
    \cup (IF attempts[a].elapsed THEN {"sleep"} ELSE {})

\* A sleep branch that finishes without calling connect().
SleepBranchNoConnect(a) ==
  attempts' = [attempts EXCEPT ![a].st = "connected", ![a].delay = 0, ![a].late = FALSE]
\* What the sleep branch does: ws_client_clone.connect() is invoked once. The
\* Sleep future is dropped with the select!, so the record's delay is cleared.
SleepBranch(a) ==
  attempts' = [attempts EXCEPT ![a].st = "connecting", ![a].delay = 0,
                               ![a].late = FALSE, ![a].connects = @ + 1]

\* The task is polled: select! takes one ready branch (at random when both are).
Poll(a) ==
  /\ attempts[a].st = "sleeping"
  /\ \E br \in ReadyBranches(a) :
       IF br = "cancelled"
       THEN attempts' = [attempts EXCEPT ![a].st = "cancelled", ![a].delay = 0,
                                         ![a].elapsed = FALSE, ![a].late = FALSE]
       ELSE SleepBranch(a)
  /\ UNCHANGED <<enable_sync, session_alive, cancellation_token, cancelled, pc, cur,
                 old, events, state_recv, token_state_rx>>
  /\ UNCHANGED <<trVars, otherVars>>

\* ws_client_clone.connect().await returns Ok or Err; either is only logged.
ConnectDone(a, ok) ==
  /\ attempts[a].st = "connecting"
  /\ attempts' = [attempts EXCEPT ![a].st = IF ok THEN "connected" ELSE "failed"]
  /\ UNCHANGED <<enable_sync, session_alive, cancellation_token, cancelled, pc, cur,
                 old, events, state_recv, token_state_rx>>
  /\ UNCHANGED <<trVars, otherVars>>

\* ---------------------------------------------------- subscribe_token_state
\* subscribe_token_state(): a token-state receiver, watch::channel(Init), the
\* translation task, and the WatchStream over the watch receiver.
subscribe_token_state ==
  /\ session_alive
  /\ ~subscribed
  /\ subscribed' = TRUE
  /\ UNCHANGED <<raw_rx, raw_sent, watch, stream, got>>
  /\ UNCHANGED <<sessVars, otherVars>>

\* The auth client emits a raw token state; the translation loop's receiver queues
\* it if it exists already.
EmitRawTokenState(kind) ==
  /\ raw_sent < MaxTokenEvents
  /\ ApiAlive
  /\ raw_sent' = raw_sent + 1
  /\ raw_rx' = IF subscribed THEN Append(raw_rx, kind) ELSE raw_rx
  /\ UNCHANGED <<subscribed, watch, stream, got>>
  /\ UNCHANGED <<sessVars, otherVars>>

\* A match that reports a failed get_token() as Invalid.
TranslatedInvalidOnErr(kind, res) ==
  IF kind = "Refresh"
  THEN IF res = "err" THEN InvalidState ELSE RefreshState(res)
  ELSE InvalidState
\* A match that sends Init back when get_token() fails.
TranslatedInitOnErr(kind, res) ==
  IF kind = "Refresh"
  THEN IF res = "err" THEN InitState ELSE RefreshState(res)
  ELSE InvalidState
\* The match of the translation loop: what it sends for a raw state, given what
\* client.get_token() returned.
Translated(kind, res) ==
  IF kind = "Refresh"
  THEN IF res = "err" THEN NoSend ELSE RefreshState(res)
  ELSE InvalidState

\* watch_tx.send(value): Err, and the value is dropped, once the receiver is gone.
WatchSend(value) ==
  IF watch.rx_alive
  THEN [watch EXCEPT !.val = value, !.ver = @ + 1]
  ELSE watch

\* One turn of the translation loop: recv, weak_client.upgrade(), match, send.
Translate(res) ==
  /\ subscribed
  /\ raw_rx # <<>>
  /\ raw_rx' = Tail(raw_rx)
  /\ LET value == Translated(Head(raw_rx), res)
     IN watch' = IF ApiAlive /\ value # NoSend THEN WatchSend(value) ELSE watch
  /\ got' = IF ApiAlive /\ Head(raw_rx) = "Refresh" THEN res ELSE "none"
  /\ UNCHANGED <<raw_sent, subscribed, stream>>
  /\ UNCHANGED <<sessVars, otherVars>>

\* The subscriber polls the WatchStream: the current value on the first poll,
\* afterwards the current value whenever the channel changed since the last one.
StreamNext ==
  /\ subscribed
  /\ watch.rx_alive
  /\ ~stream.polled \/ watch.ver > stream.seen
  /\ stream' = [polled |-> TRUE,
                seen |-> watch.ver,
                first |-> IF stream.polled THEN stream.first ELSE watch.ver,
                out |-> Append(stream.out, watch.val)]
  /\ UNCHANGED <<raw_rx, raw_sent, subscribed, watch, got>>
  /\ UNCHANGED <<sessVars, otherVars>>

\* The subscriber drops the WatchStream, and with it the watch receiver.
DropStream ==
  /\ subscribed
  /\ watch.rx_alive
  /\ watch' = [watch EXCEPT !.rx_alive = FALSE]
  /\ UNCHANGED <<raw_rx, raw_sent, subscribed, stream, got>>
  /\ UNCHANGED <<sessVars, otherVars>>

NextTokenState ==
  \/ subscribe_token_state
  \/ \E kind \in TokenStates : EmitRawTokenState(kind)
  \/ \E res \in GetTokenResults : Translate(res)
  \/ StreamNext
  \/ DropStream
  \/ DropServer

SpecTokenState == Init /\ [][NextTokenState]_vars

\* ---------------------------------------------------------- service handles
\* Number of AFServerImpl values built in a run.
MaxHandles == 3

\* The outcome of AFServerImpl::try_get_client: Ok(client), or the
\* DataSyncRequired error ("Data Sync is disabled, please enable it first").
OkClient == "ok"
SyncDisabled == "DataSyncRequired"

\* A try_get_client that consults the server's flag at the time of the call.
TryGetClientLive(h) == IF enable_sync THEN OkClient ELSE SyncDisabled
\* match self.client.clone() { None => Err(..), Some(client) => Ok(client) }
TryGetClient(h) == IF handles[h].client THEN OkClient ELSE SyncDisabled

\* get_server_impl(): Some(self.client.clone()) if enable_sync.load() else None.
\* sync records the flag at construction, last the outcome of the latest
\* try_get_client on the handle.
get_server_impl ==
  /\ session_alive
  /\ Len(handles) < MaxHandles
  /\ handles' = Append(handles, [client |-> enable_sync, sync |-> enable_sync,
                                 last |-> "none"])
  /\ UNCHANGED <<network_reachable, lagged>>
  /\ UNCHANGED <<sessVars, trVars>>

\* A service calls try_get_client on the handle it holds.
try_get_client(h) ==
  /\ handles' = [handles EXCEPT ![h].last = TryGetClient(h)]
  /\ UNCHANGED <<network_reachable, lagged>>
  /\ UNCHANGED <<sessVars, trVars>>

NextHandles ==
  \/ get_server_impl
  \/ \E h \in 1..Len(handles) : try_get_client(h)
  \/ \E enable \in BOOLEAN : set_enable_sync(enable)
  \/ DropServer

SpecHandles == Init /\ [][NextHandles]_vars

\* ------------------------------------------------------------ receiver lag
\* The broadcast receiver of loop l falls behind the sender: the oldest queued
\* state is overwritten and the receiver is marked as lagged.
Lag(l) ==
  /\ ~lagged[l]
  /\ pc[l] # "done"
  /\ IF l = "sup"
     THEN /\ state_recv # <<>>
          /\ state_recv' = Tail(state_recv)
          /\ UNCHANGED token_state_rx
     ELSE /\ token_state_rx # <<>>
          /\ token_state_rx' = Tail(token_state_rx)
          /\ UNCHANGED state_recv
  /\ lagged' = [lagged EXCEPT ![l] = TRUE]
  /\ UNCHANGED <<enable_sync, session_alive, cancellation_token, cancelled, pc, cur,
                 old, attempts, events>>
  /\ UNCHANGED <<trVars, network_reachable, handles>>

\* recv() on a lagged receiver returns Err(Lagged): `while let Ok(..)` does not
\* match, the loop is left and the task ends.
RecvLagged(l) ==
  /\ pc[l] = "recv"
  /\ lagged[l]
  /\ pc' = [pc EXCEPT ![l] = "done"]
  /\ UNCHANGED <<enable_sync, session_alive, cancellation_token, cancelled, cur,
                 old, attempts, events, state_recv, token_state_rx>>
  /\ UNCHANGED <<trVars, otherVars>>

\* ------------------------------------------------------------ specification
Next ==
  \/ \E kind \in ConnectStates : EmitConnectState(kind)
  \/ \E kind \in TokenStates : EmitTokenState(kind)
  \/ \E enable \in BOOLEAN : set_enable_sync(enable)
  \/ DropServer
  \/ SupStart
  \/ SupRecv
  \/ SupRefreshDone
  \/ TokRecv
  \/ \E l \in Loops : Load(l)
  \/ \E l \in Loops : Cancel(l)
  \/ \E l \in Loops : Store(l)
  \/ \E a \in AttemptIds : SleepElapses(a)
  \/ \E a \in AttemptIds : Poll(a)
  \/ \E a \in AttemptIds, ok \in BOOLEAN : ConnectDone(a, ok)

Spec == Init /\ [][Next]_vars

\* The tokio runtime keeps polling a spawned task that can make progress, and a
\* running timer completes: every sleep ends and every ready task is polled.
Fairness ==
  \A a \in 1..MaxEvents :
    /\ WF_vars(a \in AttemptIds /\ SleepElapses(a))
    /\ WF_vars(a \in AttemptIds /\ Poll(a))

SpecFair == Init /\ [][Next]_vars /\ Fairness

\* The session with receivers that can fall behind their broadcast channel.
NextLag ==
  \/ Next
  \/ \E l \in Loops : Lag(l)
  \/ \E l \in Loops : RecvLagged(l)

SpecLag == Init /\ [][NextLag]_vars

\* The session with the embedder also reporting network reachability.
NextReach ==
  \/ Next
  \/ \E reachable \in BOOLEAN : set_network_reachable(reachable)

SpecReach == Init /\ [][NextReach]_vars

\* ================================================================= claims
\* Attempt a is pending (sleeping, its signal not cancelled) or running (in connect).
InFlight(a) ==
  \/ attempts[a].st = "connecting"
  \/ attempts[a].st = "sleeping" /\ a \notin cancelled

\* No loop is inside attempt_reconnect.
LoopsIdle == \A l \in Loops : pc[l] \notin {"load", "cancel", "store"}

\* The CancellationTokens created so far: the initial one and one per attempt.
TokenIds == 0..Len(attempts)

\* C1: at every instant at most one reconnect attempt is in its delay phase or
\* its connect phase.
C1_AtMostOneInFlight ==
  Cardinality({a \in AttemptIds : InFlight(a)}) <= 1

\* C2: whenever no caller is inside schedule_reconnect, exactly one cancellation
\* signal is un-cancelled, it is the one installed in the shared cell, and the
\* signal of every attempt created by an earlier call is cancelled.
C2_OneLiveSignal ==
  LoopsIdle =>
    /\ {t \in TokenIds : t \notin cancelled} = {cancellation_token}
    /\ \A a \in AttemptIds : a # Len(attempts) => a \in cancelled

\* C3: while the sync-enabled flag is false no reconnect attempt is scheduled and
\* no transport connect is invoked.
C3_NoReconnectWhileSyncOff ==
  [][~enable_sync =>
       /\ Len(attempts') = Len(attempts)
       /\ \A a \in AttemptIds : attempts'[a].connects = attempts[a].connects]_vars

\* C4: a PingTimeout/Lost event the supervisor handled while sync-enabled was
\* false never has a reconnect attempt, neither when it is handled nor after a
\* later set_enable_sync(true).
C4_StaleEventNeverReconnects ==
  \A e \in EventIds :
    (events[e].src = "conn" /\ events[e].kind \in ReconnectStates
       /\ events[e].gate = "off")
    => /\ events[e].handled
       /\ cur["sup"] # e
       /\ \A a \in AttemptIds : attempts[a].cause # e

\* C4 witness: an event was skipped with sync off, sync is on again, the queue is
\* empty and the supervisor waits for the next event.
C4_Witness ==
  /\ enable_sync
  /\ pc["sup"] = "recv"
  /\ state_recv = <<>>
  /\ \E e \in EventIds : events[e].kind \in ReconnectStates /\ events[e].gate = "off"

\* An Invalid token event was handled (the transport disconnected) and no Refresh
\* token event has been emitted since.
TornDown ==
  \E e \in EventIds :
    /\ events[e].src = "tok" /\ events[e].kind = "Invalid" /\ events[e].disc > 0
    /\ \A f \in EventIds :
         (f > e /\ events[f].src = "tok") => events[f].kind # "Refresh"

\* C5: after the token loop disconnected the transport for an Invalid event, no
\* transport connect is invoked until a later Refresh token event arrives.
C5_NoConnectAfterInvalid ==
  [][TornDown =>
       \A a \in AttemptIds : attempts'[a].connects = attempts[a].connects]_vars

\* C6: every Invalid raw token event handled while the transport is alive has
\* exactly one disconnect call and no reconnect attempt; no other event has a
\* disconnect call.
C6_InvalidDisconnectsOnce ==
  \A e \in EventIds :
    /\ (events[e].src = "tok" /\ events[e].kind = "Invalid"
          /\ events[e].up = "some" /\ events[e].handled)
       => /\ events[e].disc = 1
          /\ \A a \in AttemptIds : attempts[a].cause # e
    /\ (events[e].src = "tok" /\ events[e].kind = "Invalid") => cur["tok"] # e
    /\ events[e].kind # "Invalid" => events[e].disc = 0

\* C6 witness: an Invalid event was handled with the transport alive.
C6_Witness ==
  \E e \in EventIds :
    events[e].kind = "Invalid" /\ events[e].up = "some" /\ events[e].handled

\* The attempt the supervisor scheduled for a PingTimeout/Lost event it handled
\* with sync enabled and the auth client reachable.
SupAttempt(a) ==
  /\ a \in AttemptIds
  /\ attempts[a].by = "sup"
  /\ events[attempts[a].cause].gate = "on"
  /\ events[attempts[a].cause].up = "some"

\* C7: the attempt scheduled for a PingTimeout/Lost event handled with sync enabled
\* sleeps at least 2 and less than 12 seconds, invokes connect only once that
\* sleep has elapsed, never more than once, and, unless a later schedule_reconnect
\* cancels it, eventually invokes connect exactly once.
C7_OneConnectAfterDelay ==
  /\ [](\A a \in AttemptIds :
          /\ attempts[a].connects <= 1
          /\ (SupAttempt(a) /\ attempts[a].st = "sleeping")
             => (attempts[a].delay >= 2 /\ attempts[a].delay < 12))
  /\ [][\A a \in AttemptIds :
          attempts'[a].connects > attempts[a].connects
          => (attempts[a].st = "sleeping" /\ attempts[a].elapsed)]_vars
  /\ \A a \in 1..MaxEvents :
       SupAttempt(a) ~> (a \in cancelled \/ (a \in AttemptIds /\ attempts[a].connects = 1))

\* C7 witness: such an attempt, never cancelled, has invoked connect.
C7_Witness ==
  \E a \in AttemptIds :
    SupAttempt(a) /\ a \notin cancelled /\ attempts[a].connects = 1
      /\ Len(events) = 1

\* C8: when every schedule_reconnect call was issued before any earlier attempt's
\* delay elapsed, every attempt but the last-issued one is cancelled before it
\* can invoke connect.
C8_AllButLastCancelled ==
  (LoopsIdle /\ Len(attempts) >= 2 /\ \A a \in AttemptIds : ~Elapsed(a))
  => \A a \in AttemptIds : a # Len(attempts) => a \in cancelled

\* C9: for the minimum delays the session uses, the delays an attempt can draw
\* are exactly d, d+1, ..., d+9.
C9_DelayRangeIsDocumented ==
  \A l \in Loops :
    pc[l] = "store"
    => DelayRange(MinDelay(l)) = MinDelay(l)..(MinDelay(l) + DocWidth - 1)

\* C10: the stream yields Init first when nothing was sent before its first poll,
\* and Init at no later position, nor first once a real state was sent.
C10_InitOnlyFirst ==
  /\ (stream.polled /\ stream.first = 0) => stream.out[1] = InitState
  /\ (stream.polled /\ stream.first > 0) => stream.out[1].tag \in {"Refresh", "Invalid"}
  /\ \A i \in 2..Len(stream.out) : stream.out[i].tag \in {"Refresh", "Invalid"}

\* C10 witness: Init was yielded first and a real state after it.
C10_Witness ==
  /\ Len(stream.out) >= 2
  /\ stream.out[1] = InitState
  /\ stream.out[2].tag = "Refresh"

\* C11: every value the translation loop sent reaches the subscriber: once a
\* stream polled from the start has caught up with the channel, it has yielded
\* Init and one item per value sent.
C11_NoValueSkipped ==
  (stream.polled /\ stream.first = 0 /\ stream.seen = watch.ver)
  => Len(stream.out) = watch.ver + 1

\* C12: a handle's view of sync is the snapshot taken at construction: every
\* try_get_client on a handle built while sync was on succeeds, every one on a
\* handle built while sync was off fails with the sync-disabled error, whatever
\* set_enable_sync did since; no step changes what a handle captured.
C12_HandleIsSnapshot ==
  /\ \A h \in 1..Len(handles) :
       /\ handles[h].client = handles[h].sync
       /\ handles[h].last # "none"
            => handles[h].last = (IF handles[h].sync THEN OkClient ELSE SyncDisabled)

\* Both cases at once: a handle built with sync on still succeeds now that sync is
\* off, and one built with sync off fails although sync was on in between.
C12_Witness ==
  \E h1, h2 \in 1..Len(handles) :
    /\ h1 < h2
    /\ handles[h1].sync /\ handles[h1].last = OkClient
    /\ ~handles[h2].sync /\ handles[h2].last = SyncDisabled
    /\ ~enable_sync
    /\ \E h3 \in 1..Len(handles) : h3 > h2 /\ handles[h3].sync

\* C13: while the server object holds the transport and the auth client, both
\* loops are still running: neither has ended after a refresh error, a failed
\* connect or a lagged receiver.
C13_LoopsKeepRunning ==
  session_alive => \A l \in Loops : pc[l] # "done"

\* The refresh_token call started by an Unauthorized event has not returned yet.
RefreshOutstanding == pc["sup"] = "refresh"

\* C14: the refresh is fire-and-forget: while it is outstanding the connect-state
\* loop is not suspended, so a queued PingTimeout/Lost event can be received and
\* handled before the refresh completes.
C14_RefreshDoesNotSuspend ==
  (/\ RefreshOutstanding
   /\ state_recv # <<>>
   /\ events[Head(state_recv)].kind \in ReconnectStates)
  => ENABLED SupRecv

\* C15: an Unauthorized event handled while the auth client could be upgraded
\* led to exactly one refresh_token call and to no reconnect attempt; every
\* attempt was scheduled either by the connect-state loop for a PingTimeout/Lost
\* event or by the token-state loop for a Refresh event; and the return of the
\* refresh (Ok or Err) schedules nothing.
C15_UnauthorizedOnlyRefreshes ==
  /\ \A e \in EventIds :
       (events[e].kind = "Unauthorized" /\ events[e].up = "some")
         => /\ events[e].refr = 1
            /\ \A a \in AttemptIds : attempts[a].cause # e
  /\ \A e \in EventIds : events[e].kind # "Unauthorized" => events[e].refr = 0
  /\ \A a \in AttemptIds :
       LET c == events[attempts[a].cause]
       IN IF attempts[a].by = "sup"
          THEN c.src = "conn" /\ c.kind \in ReconnectStates
          ELSE c.src = "tok" /\ c.kind = "Refresh"
  /\ RefreshOutstanding => (cur["sup"] \in EventIds /\ old["sup"] = -1)

\* An Unauthorized event was handled with the auth client alive and its refresh has
\* returned; the only attempt was scheduled for a Refresh token event emitted later.
C15_Witness ==
  \E e \in EventIds :
    /\ events[e].kind = "Unauthorized" /\ events[e].up = "some" /\ events[e].handled
    /\ AttemptIds # {}
    /\ \A a \in AttemptIds :
         attempts[a].by = "tok" /\ attempts[a].cause > e

\* C16: background tasks never prevent teardown: once the server object is
\* dropped no task keeps the transport alive, and a loop that has nothing left
\* to handle has terminated.
C16_TasksLetGo ==
  (~session_alive /\ state_recv = <<>> /\ token_state_rx = <<>>
   /\ \A a \in AttemptIds : ~Active(a))
  => /\ ~WsAlive
     /\ pc["sup"] \in {"start", "done"}

\* The cancellation token of sleeping attempt a fired before its delay elapsed.
CancelledFirst(a) == a \in cancelled /\ (~attempts[a].elapsed \/ attempts[a].late)

\* C17: an attempt invokes connect at most once: when its select! completes it
\* has invoked connect zero times if its cancellation fired before its delay
\* elapsed and exactly once if the delay elapsed first; a connect that returns
\* (Ok or Err) is never followed by another connect or another attempt.
C17_ConnectAtMostOnce ==
  [][\A a \in AttemptIds :
       /\ (attempts[a].st = "sleeping" /\ attempts'[a].st # "sleeping")
            => attempts'[a].connects = (IF CancelledFirst(a) THEN 0 ELSE 1)
       /\ attempts[a].st = "connecting"
            => (attempts'[a].connects = attempts[a].connects
                /\ (attempts'[a].st # "connecting" => Len(attempts') = Len(attempts)))
       /\ attempts[a].st \in {"connected", "failed", "cancelled"}
            => attempts'[a] = attempts[a]]_vars

\* C18: a step that changes the sync flag changes nothing else: no connect or
\* disconnect call, no attempt created, cancelled or advanced, the installed
\* cancellation token and the set of cancelled tokens as they were, and the
\* network-reachable flag untouched.
C18_SetEnableSyncOnlyFlag ==
  [][enable_sync' # enable_sync
       => UNCHANGED <<session_alive, cancellation_token, cancelled, pc, cur, old,
                      attempts, events, state_recv, token_state_rx,
                      trVars, otherVars>>]_vars

\* Sync was on when a PingTimeout/Lost event was handled and is off now, with the
\* network reported unreachable: the attempt scheduled for that event is still
\* sleeping on the installed, un-cancelled token.
C18_Witness ==
  /\ ~enable_sync
  /\ ~network_reachable
  /\ \E a \in AttemptIds :
       /\ events[attempts[a].cause].gate = "on"
       /\ attempts[a].st = "sleeping"
       /\ cancellation_token = a
       /\ a \notin cancelled

\* The step is one turn of the translation loop: it takes the oldest raw state.
TranslationTurn == raw_rx # <<>> /\ raw_rx' = Tail(raw_rx)
\* The turn called watch_tx.send(value).
Emitted(value) == watch' = WatchSend(value)

\* C20 as stated: a turn on a raw Refresh sends Refresh{token} exactly when
\* get_token returned a token and sends nothing otherwise, a turn on a raw
\* Invalid always sends Invalid, and no turn touches the reconnect machinery or
\* the transport.
C20_TranslationAsStated ==
  [][TranslationTurn =>
       /\ UNCHANGED sessVars
       /\ IF Head(raw_rx) = "Refresh"
          THEN IF got' \in Tokens THEN Emitted(RefreshState(got')) ELSE UNCHANGED watch
          ELSE Emitted(InvalidState)]_vars

\* C20, amended: as stated for every raw state handled while the auth client can
\* still be upgraded; a raw state handled after the auth client is gone (Refresh
\* or Invalid) sends nothing.
C20_TranslationWhileClientAlive ==
  [][TranslationTurn =>
       /\ UNCHANGED sessVars
       /\ IF ~ApiAlive
          THEN UNCHANGED watch /\ got' = "none"
          ELSE IF Head(raw_rx) = "Refresh"
               THEN /\ got' # "none"
                    /\ IF got' \in Tokens
                       THEN Emitted(RefreshState(got'))
                       ELSE UNCHANGED watch
               ELSE Emitted(InvalidState)]_vars

\* Three raw states were handled: two were sent on, and the last turn was a
\* Refresh whose get_token failed and left the channel at Invalid.
C20_Witness ==
  /\ raw_sent = 3 /\ raw_rx = <<>>
  /\ got = "err"
  /\ watch.ver = 2 /\ watch.val = InvalidState /\ watch.rx_alive

====
